---- MODULE Spec2Model ----
(***************************************************************************)
(* Quiz-transcript importer: block parser, chapter resolver, normalizer    *)
(* and the insert-or-ignore upsert engine over the SQLite schema           *)
(* (src/import_questions.py, src/web_app.py).                              *)
(*                                                                         *)
(* Text is a sequence of characters; a character is a one-element atom.    *)
(* The CJK marker characters are written in ASCII transliteration:         *)
(*   ti mu :         LABEL_Q        de2 fen :          LABEL_SCORE         *)
(*   ni de da an :   LABEL_YOUR     zheng que da an :  LABEL_CORRECT       *)
(*   wei zuo da      the "not answered" sentinel                           *)
(* "LF", "CR", "TAB" and " " are the white-space characters, "BOM" is      *)
(* U+FEFF, "xFF" is a byte that is not valid UTF-8.                        *)
(***************************************************************************)
EXTENDS Integers, Sequences, FiniteSets, TLC

VARIABLES
    \* --- block parser (one call of main's / import_questions' read + parse_blocks)
    content,    \* the bytes of the input file
    via,        \* "main" (command line) or "web" (upload handler)
    text,       \* the decoded text handed to parse_blocks
    lines,      \* parse_blocks: lines
    i,          \* parse_blocks: line cursor (1-based; Len(lines)+1 is the end)
    cur,        \* parse_blocks: the open entry, <<>> for None, <<e>> otherwise
    entries,    \* parse_blocks: the output list
    ppc,        \* position of the call: "idle", "read", "scan", "done"
    \* --- chapter resolver (one call of determine_chapter)
    path,       \* determine_chapter: path, as [dirs, name]
    fallback,   \* determine_chapter: fallback, <<>> for None, <<s>> for a string
    parts,      \* the list the for loop runs over
    part_ix,    \* index of the part examined next
    chapter,    \* the returned value, <<>> while the call is running
    cpc,        \* position of the call: "idle", "loop", "done"
    \* --- upsert engine (upsert_entries / import_questions_from_entries on one database)
    store,      \* the committed database: questions, answers, AUTOINCREMENT counters
    lock,       \* the process holding SQLite's write lock (open transaction), "" if none
    tx,         \* the database as seen inside the open write transaction
    proc,       \* per process: position, locals and connection of its current call
    ev,         \* the loop iteration executed last
    hist        \* the whole import that returned last, <<>> before the first

pvars == <<content, via, text, lines, i, cur, entries, ppc>>

cvars == <<path, fallback, parts, part_ix, chapter, cpc>>

svars == <<store, lock, tx, proc, ev, hist>>

vars == <<pvars, cvars, svars>>

-----------------------------------------------------------------------------
(* Markers and string primitives                                           *)

LABEL_Q == <<"ti", "mu", ":">>

LABEL_YOUR == <<"ni", "de", "da", "an", ":">>

LABEL_CORRECT == <<"zheng", "que", "da", "an", ":">>

LABEL_SCORE == <<"de2", "fen", ":">>

\* str.isspace for the characters of the alphabet (U+FEFF is not white space)
isspace(c) == c \in {" ", "TAB", "LF", "CR"}

IsDigit(c) == c \in {"0", "1", "2", "3", "4", "5", "6", "7", "8", "9"}

RECURSIVE lstrip(_)
lstrip(s) == IF s = <<>> THEN s
             ELSE IF isspace(Head(s)) THEN lstrip(Tail(s)) ELSE s

RECURSIVE rstrip(_)
rstrip(s) == IF s = <<>> THEN s
             ELSE IF isspace(s[Len(s)]) THEN rstrip(SubSeq(s, 1, Len(s) - 1)) ELSE s

\* str.strip()
strip(s) == rstrip(lstrip(s))

\* str.startswith
startswith(s, p) == Len(s) >= Len(p) /\ SubSeq(s, 1, Len(p)) = p

\* s[len(p):]
after(s, p) == SubSeq(s, Len(p) + 1, Len(s))

\* l.rstrip("\n")
RECURSIVE rstrip_nl(_)
rstrip_nl(s) == IF s = <<>> THEN s
                ELSE IF s[Len(s)] = "LF" THEN rstrip_nl(SubSeq(s, 1, Len(s) - 1)) ELSE s

\* str.splitlines(): split at LF, CR and CR LF; no empty last line
RECURSIVE splitlines_from(_, _)
splitlines_from(rest, line) ==
    IF rest = <<>> THEN (IF line = <<>> THEN <<>> ELSE <<line>>)
    ELSE IF Head(rest) = "LF" THEN <<line>> \o splitlines_from(Tail(rest), <<>>)
    ELSE IF Head(rest) = "CR"
         THEN IF Len(rest) >= 2 /\ rest[2] = "LF"
              THEN <<line>> \o splitlines_from(Tail(Tail(rest)), <<>>)
              ELSE <<line>> \o splitlines_from(Tail(rest), <<>>)
    ELSE splitlines_from(Tail(rest), Append(line, Head(rest)))

splitlines(s) == splitlines_from(s, <<>>)

\* bytes.decode("utf-8", errors="ignore"): undecodable bytes are dropped,
\* an encoded U+FEFF decodes to U+FEFF
RECURSIVE decode_utf8(_)
decode_utf8(bytes) ==
    IF bytes = <<>> THEN <<>>
    ELSE IF Head(bytes) = "xFF" THEN decode_utf8(Tail(bytes))
    ELSE <<Head(bytes)>> \o decode_utf8(Tail(bytes))

\* bytes.decode("utf-8-sig", errors="ignore"): one leading BOM is removed
decode_utf8_sig(bytes) ==
    IF bytes # <<>> /\ Head(bytes) = "BOM" THEN decode_utf8(Tail(bytes))
    ELSE decode_utf8(bytes)

\* main: f.read_text(encoding=args.encoding, errors="ignore"), encoding "utf-8"
read_text(bytes) == decode_utf8(bytes)

\* import_questions: file.read().decode('utf-8-sig', errors='ignore')
read_upload(bytes) == decode_utf8_sig(bytes)

-----------------------------------------------------------------------------
(* parse_blocks                                                            *)

\* variant: the inner loop also stops at a blank line
RECURSIVE collect_StopAtBlank(_, _, _, _)
collect_StopAtBlank(ls, k, answers, stops) ==
    IF k > Len(ls) THEN [i |-> k, answers |-> answers]
    ELSE LET peek == strip(ls[k]) IN
         IF peek = <<>> \/ \E m \in stops : startswith(peek, m)
         THEN [i |-> k, answers |-> answers]
         ELSE collect_StopAtBlank(ls, k + 1, Append(answers, peek), stops)

\* the inner "while i < len(lines)" of an answer block: returns the cursor
\* at the terminating line (or the end) and the collected answers
RECURSIVE collect(_, _, _, _)
collect(ls, k, answers, stops) ==
    IF k > Len(ls) THEN [i |-> k, answers |-> answers]
    ELSE LET peek == strip(ls[k]) IN
         IF \E m \in stops : startswith(peek, m)
         THEN [i |-> k, answers |-> answers]
         ELSE collect(ls, k + 1,
                      IF peek # <<>> THEN Append(answers, peek) ELSE answers,
                      stops)

\* variant: the your-answer block does not stop at a question marker
YourStops_NoQuestion == {LABEL_CORRECT, LABEL_SCORE}

YourStops == {LABEL_CORRECT, LABEL_Q, LABEL_SCORE}

\* variant: the correct-answer block does not stop at a your-answer marker
CorrectStops_NoYour == {LABEL_Q, LABEL_SCORE}

CorrectStops == {LABEL_Q, LABEL_SCORE, LABEL_YOUR}

\* flush(): "if cur:" is true of every dict parse_blocks builds (three keys)
flush(p) == IF p.cur # <<>>
            THEN [p EXCEPT !.entries = Append(p.entries, p.cur[1]), !.cur = <<>>]
            ELSE p

\* branch "if line.startswith(LABEL_Q)"
start_question(ls, p) ==
    LET line == strip(ls[p.i])
        f    == flush(p)
        q    == strip(after(line, LABEL_Q))
    IN  [f EXCEPT !.cur = <<[question |-> q, your |-> <<>>, correct |-> <<>>]>>,
                  !.i = p.i + 1]

\* variant: the text on the marker line is not taken
answer_block_NoInline(ls, p, label, stops) == collect(ls, p.i + 1, <<>>, stops)

\* the body shared by the two answer branches: rest, answers, inner loop
answer_block(ls, p, label, stops) ==
    LET line == strip(ls[p.i])
        rest == strip(after(line, label))
        first == IF rest # <<>> THEN <<rest>> ELSE <<>>
    IN  collect(ls, p.i + 1, first, stops)

\* branch "if line.startswith(LABEL_YOUR) and cur is not None"
your_answer(ls, p) ==
    LET r == answer_block(ls, p, LABEL_YOUR, YourStops)
    IN  [p EXCEPT !.cur = <<[p.cur[1] EXCEPT !.your = r.answers]>>, !.i = r.i]

\* branch "if line.startswith(LABEL_CORRECT) and cur is not None"
correct_answer(ls, p) ==
    LET r == answer_block(ls, p, LABEL_CORRECT, CorrectStops)
    IN  [p EXCEPT !.cur = <<[p.cur[1] EXCEPT !.correct = r.answers]>>, !.i = r.i]

\* variant: a line that matches no rule closes the open entry
skip_line_Flush(p) == [flush(p) EXCEPT !.i = p.i + 1]

\* variant: the trailing "i += 1" is missing
skip_line_Stay(p) == p

\* the trailing "i += 1"
skip_line(p) == [p EXCEPT !.i = p.i + 1]

IsQuestionLine(ls, p) == startswith(strip(ls[p.i]), LABEL_Q)

IsYourLine(ls, p) ==
    /\ ~IsQuestionLine(ls, p)
    /\ startswith(strip(ls[p.i]), LABEL_YOUR) /\ p.cur # <<>>

IsCorrectLine(ls, p) ==
    /\ ~IsQuestionLine(ls, p) /\ ~IsYourLine(ls, p)
    /\ startswith(strip(ls[p.i]), LABEL_CORRECT) /\ p.cur # <<>>

\* one iteration of the outer "while i < len(lines)"
outer_step(ls, p) ==
    IF IsQuestionLine(ls, p) THEN start_question(ls, p)
    ELSE IF IsYourLine(ls, p) THEN your_answer(ls, p)
    ELSE IF IsCorrectLine(ls, p) THEN correct_answer(ls, p)
    ELSE skip_line(p)

RECURSIVE parse_loop(_, _)
parse_loop(ls, p) ==
    IF p.i > Len(ls) THEN flush(p).entries ELSE parse_loop(ls, outer_step(ls, p))

\* "lines = [l.rstrip("\n") for l in text.splitlines()]"
text_lines(t) == LET sp == splitlines(t) IN [k \in 1..Len(sp) |-> rstrip_nl(sp[k])]

\* parse_blocks as a function of its argument
parse_blocks(t) == parse_loop(text_lines(t), [i |-> 1, cur |-> <<>>, entries |-> <<>>])

-----------------------------------------------------------------------------
(* normalize_text, detect_type and the upsert engine                       *)

\* re.sub(r"\s+", " ", ...): every run of white space becomes one space
RECURSIVE collapse(_)
collapse(s) ==
    IF s = <<>> THEN <<>>
    ELSE IF isspace(Head(s)) THEN <<" ">> \o collapse(lstrip(Tail(s)))
    ELSE <<Head(s)>> \o collapse(Tail(s))

\* variant: strip only, white-space runs are kept
normalize_text_StripOnly(s) == strip(s)

\* re.sub(r"\s+", " ", s.strip())
normalize_text(s) == collapse(strip(s))

MultipleChoice == "xuanzeti"

FillInBlank == "tiankongti"

\* re.search(r"\[__\d+__\]", question)
HasSlot(s) ==
    \E n \in 1..Len(s) : \E m \in 1..Len(s) :
        /\ n + 5 + m <= Len(s)
        /\ s[n] = "[" /\ s[n + 1] = "_" /\ s[n + 2] = "_"
        /\ \A j \in (n + 3)..(n + 2 + m) : IsDigit(s[j])
        /\ s[n + 3 + m] = "_" /\ s[n + 4 + m] = "_" /\ s[n + 5 + m] = "]"

detect_type(question) == IF HasSlot(question) THEN FillInBlank ELSE MultipleChoice

\* the literal "not answered" of the filter
Sentinel == <<"wei", "zuo", "da">>

\* "correct = [a.strip() for a in e.get("correct", []) if a.strip() != ""]"
RECURSIVE stripped_nonempty(_)
stripped_nonempty(as) ==
    IF as = <<>> THEN <<>>
    ELSE IF strip(Head(as)) # <<>>
         THEN <<strip(Head(as))>> \o stripped_nonempty(Tail(as))
         ELSE stripped_nonempty(Tail(as))

\* variant: only an empty list counts as unanswered
is_unanswered_EmptyOnly(correct) == Len(correct) = 0

\* variant: only the lone sentinel counts as unanswered
is_unanswered_SentinelOnly(correct) == Len(correct) = 1 /\ correct[1] = Sentinel

\* "if len(correct) == 0 or (len(correct) == 1 and correct[0] == "未作答")"
is_unanswered(correct) ==
    Len(correct) = 0 \/ (Len(correct) = 1 /\ correct[1] = Sentinel)

\* the database after executescript(DDL) on a new file
EmptyDB == [questions |-> {}, answers |-> {}, qseq |-> 0, aseq |-> 0]

\* variant: the unique index compares the key with q_text
QuestionConflicts_ByText(db, ch, q_norm) ==
    {r \in db.questions : r.chapter = ch /\ r.q_text = q_norm}

\* rows that conflict with UNIQUE(chapter, q_text_norm)
QuestionConflicts(db, ch, q_norm) ==
    {r \in db.questions : r.chapter = ch /\ r.q_text_norm = q_norm}

\* variant: on conflict the stored row takes the new text and source label
insert_or_update_question(db, ch, q, q_norm, q_type, source_file) ==
    IF QuestionConflicts(db, ch, q_norm) # {}
    THEN [db |-> [db EXCEPT !.questions =
                    {IF r \in QuestionConflicts(db, ch, q_norm)
                     THEN [r EXCEPT !.q_text = q, !.source_file = source_file]
                     ELSE r : r \in db.questions}],
          rowcount |-> 0, lastrowid |-> 0]
    ELSE LET id == db.qseq + 1 IN
         [db |-> [db EXCEPT !.questions = @ \cup
                       {[id |-> id, chapter |-> ch, q_text |-> q, q_text_norm |-> q_norm,
                         q_type |-> q_type, source_file |-> source_file]},
                     !.qseq = id],
          rowcount |-> 1, lastrowid |-> id]

\* INSERT OR IGNORE INTO questions (...): the database, cur.rowcount, cur.lastrowid
insert_or_ignore_question(db, ch, q, q_norm, q_type, source_file) ==
    IF QuestionConflicts(db, ch, q_norm) # {}
    THEN [db |-> db, rowcount |-> 0, lastrowid |-> 0]
    ELSE LET id == db.qseq + 1 IN
         [db |-> [db EXCEPT !.questions = @ \cup
                       {[id |-> id, chapter |-> ch, q_text |-> q, q_text_norm |-> q_norm,
                         q_type |-> q_type, source_file |-> source_file]},
                     !.qseq = id],
          rowcount |-> 1, lastrowid |-> id]

\* variant: SELECT id FROM questions WHERE chapter=? AND q_text=?
select_question_id_ByText(db, ch, q_norm) ==
    {r.id : r \in {x \in db.questions : x.chapter = ch /\ x.q_text = q_norm}}

\* SELECT id FROM questions WHERE chapter=? AND q_text_norm=?  (the ids found)
select_question_id(db, ch, q_norm) == {r.id : r \in QuestionConflicts(db, ch, q_norm)}

\* variant: the unique index is on (question_id, answer_text)
AnswerConflicts_NoPosition(db, q_id, idx, ans) ==
    {r \in db.answers : r.question_id = q_id /\ r.answer_text = ans}

\* rows that conflict with UNIQUE(question_id, position, answer_text)
AnswerConflicts(db, q_id, idx, ans) ==
    {r \in db.answers : r.question_id = q_id /\ r.position = idx /\ r.answer_text = ans}

\* variant: INSERT INTO answers without OR IGNORE and without the index
insert_answer(db, q_id, idx, ans) ==
    [db |-> [db EXCEPT !.answers = @ \cup
                  {[id |-> db.aseq + 1, question_id |-> q_id,
                    position |-> idx, answer_text |-> ans]},
                !.aseq = @ + 1],
     rowcount |-> 1]

\* INSERT OR IGNORE INTO answers (...): the database and cur.rowcount
insert_or_ignore_answer(db, q_id, idx, ans) ==
    IF AnswerConflicts(db, q_id, idx, ans) # {}
    THEN [db |-> db, rowcount |-> 0]
    ELSE [db |-> [db EXCEPT !.answers = @ \cup
                       {[id |-> db.aseq + 1, question_id |-> q_id,
                         position |-> idx, answer_text |-> ans]},
                     !.aseq = @ + 1],
          rowcount |-> 1]

\* variant: every INSERT OR IGNORE statement is counted, whatever its rowcount
RECURSIVE insert_answers_CountAll(_, _, _, _)
insert_answers_CountAll(db, q_id, correct, idx) ==
    IF idx > Len(correct) THEN [db |-> db, inserted_a |-> 0]
    ELSE LET one  == insert_or_ignore_answer(db, q_id, idx, correct[idx])
             rest == insert_answers_CountAll(one.db, q_id, correct, idx + 1)
         IN  [db |-> rest.db, inserted_a |-> 1 + rest.inserted_a]

\* "for idx, ans in enumerate(correct, start=1)": the database and the
\* number of rows inserted
RECURSIVE insert_answers(_, _, _, _)
insert_answers(db, q_id, correct, idx) ==
    IF idx > Len(correct) THEN [db |-> db, inserted_a |-> 0]
    ELSE LET one  == insert_or_ignore_answer(db, q_id, idx, correct[idx])
             rest == insert_answers(one.db, q_id, correct, idx + 1)
         IN  [db |-> rest.db, inserted_a |-> one.rowcount + rest.inserted_a]

\* one iteration of "for e in entries" on the database db: the database,
\* the increments of the four counters, and the question id resolved
upsert_entry(db, ch, source_file, e) ==
    LET q       == strip(e.question)
        correct == stripped_nonempty(e.correct)
    IN  IF is_unanswered(correct)
        THEN [db |-> db, kind |-> "unanswered", q_id |-> 0, inserted_q |-> 0,
              skipped_q |-> 0, skipped_unanswered |-> 1, inserted_a |-> 0]
        ELSE LET q_norm == normalize_text(q)
                 q_type == detect_type(q)
                 ins    == insert_or_ignore_question(db, ch, q, q_norm, q_type, source_file)
             IN  IF ins.rowcount = 1
                 THEN LET a == insert_answers(ins.db, ins.lastrowid, correct, 1) IN
                      [db |-> a.db, kind |-> "inserted", q_id |-> ins.lastrowid,
                       inserted_q |-> 1, skipped_q |-> 0, skipped_unanswered |-> 0,
                       inserted_a |-> a.inserted_a]
                 ELSE LET found == select_question_id(ins.db, ch, q_norm) IN
                      IF found = {}
                      THEN [db |-> ins.db, kind |-> "vanished", q_id |-> 0,
                            inserted_q |-> 0, skipped_q |-> 1, skipped_unanswered |-> 0,
                            inserted_a |-> 0]
                      ELSE LET q_id == CHOOSE id \in found : TRUE
                               a    == insert_answers(ins.db, q_id, correct, 1)
                           IN  [db |-> a.db, kind |-> "duplicate", q_id |-> q_id,
                                inserted_q |-> 0, skipped_q |-> 1, skipped_unanswered |-> 0,
                                inserted_a |-> a.inserted_a]

NoCounts == [inserted_q |-> 0, skipped_q |-> 0, skipped_unanswered |-> 0, inserted_a |-> 0]

\* variant: a duplicate is not counted
AddCounts_NoDuplicates(c, r) ==
    [inserted_q |-> c.inserted_q + r.inserted_q,
     skipped_q |-> c.skipped_q,
     skipped_unanswered |-> c.skipped_unanswered + r.skipped_unanswered,
     inserted_a |-> c.inserted_a + r.inserted_a]

\* "inserted_q += 1", "skipped_q += 1", "skipped_unanswered += 1",
\* "inserted_a += 1" of one loop iteration
AddCounts(c, r) ==
    [inserted_q |-> c.inserted_q + r.inserted_q,
     skipped_q |-> c.skipped_q + r.skipped_q,
     skipped_unanswered |-> c.skipped_unanswered + r.skipped_unanswered,
     inserted_a |-> c.inserted_a + r.inserted_a]

\* "for e in entries: ..." from entry n on: the database and the counters
RECURSIVE upsert_loop(_, _, _, _, _, _)
upsert_loop(db, es, ch, source_file, n, counts) ==
    IF n > Len(es) THEN [db |-> db, counts |-> counts]
    ELSE LET r == upsert_entry(db, ch, source_file, es[n]) IN
         upsert_loop(r.db, es, ch, source_file, n + 1, AddCounts(counts, r))

\* upsert_entries / import_questions_from_entries run alone on the database
\* db: the committed database and the returned counters
upsert_entries(db, es, ch, source_file) == upsert_loop(db, es, ch, source_file, 1, NoCounts)

\* the two processes that import into the database: the command line
\* (main -> upsert_entries) and the web handler
\* (import_questions -> import_questions_from_entries)
Procs == {"main", "web"}

\* what a loop iteration saw and left behind: the row of the entry's question
\* and the answers it owns, the AUTOINCREMENT counters and the four counters
Snapshot(db, q_ids, counts) ==
    [questions |-> {r \in db.questions : r.id \in q_ids},
     answers |-> {r \in db.answers : r.question_id \in q_ids},
     qseq |-> db.qseq, aseq |-> db.aseq, counts |-> counts]

NoEvent == [who |-> "", kind |-> "none", chapter |-> <<>>, entry |-> <<>>, q_id |-> 0,
            pre |-> Snapshot(EmptyDB, {}, NoCounts), post |-> Snapshot(EmptyDB, {}, NoCounts)]

IdleProc == [pc |-> "idle", chapter |-> <<>>, source_file |-> <<>>, done |-> 0,
             counts |-> NoCounts, calls |-> 0, grand_totals |-> NoCounts,
             conn |-> "closed"]

IdleStore ==
    /\ store = EmptyDB /\ lock = "" /\ tx = EmptyDB
    /\ proc = [p \in Procs |-> IdleProc]
    /\ ev = NoEvent /\ hist = <<>>

-----------------------------------------------------------------------------
(* Bounds and inputs of the parser specification                           *)

MaxLines == 4

\* the kinds of line a transcript is made of
LineKinds == {
    LABEL_Q \o <<"a">>,                       \* question a
    <<" ">> \o LABEL_Q \o <<" ", "b", "TAB">>, \* indented question b, padded
    LABEL_YOUR \o <<"a">>,                    \* your answer, inline text
    LABEL_CORRECT \o <<"a">>,                 \* correct answer, inline text
    LABEL_CORRECT,                            \* correct answer, nothing inline
    LABEL_SCORE \o <<"1">>,                   \* score line
    <<"xFF", "b", "CR">>,                     \* unmarked line, CR LF ending
    <<>>,                                     \* empty line
    <<" ", "TAB">> }                          \* white-space-only line

BoundedSeq(S, n) == UNION {[1..k -> S] : k \in 0..n}

RECURSIVE join_lines(_)
join_lines(ls) == IF ls = <<>> THEN <<>> ELSE Head(ls) \o <<"LF">> \o join_lines(Tail(ls))

\* file contents: up to MaxLines lines, with or without a leading BOM
Contents == {bom \o join_lines(ls) : bom \in {<<>>, <<"BOM">>},
                                     ls \in BoundedSeq(LineKinds, MaxLines)}

-----------------------------------------------------------------------------
(* The parser as a state machine: one action per branch of the outer loop  *)

P == [i |-> i, cur |-> cur, entries |-> entries]

SetP(p) == i' = p.i /\ cur' = p.cur /\ entries' = p.entries

IdleParse ==
    /\ content = <<>> /\ via = "main" /\ text = <<>> /\ lines = <<>>
    /\ i = 1 /\ cur = <<>> /\ entries = <<>> /\ ppc = "idle"

IdleChapter ==
    /\ path = [dirs |-> <<>>, name |-> <<>>] /\ fallback = <<>> /\ parts = <<>>
    /\ part_ix = 1 /\ chapter = <<>> /\ cpc = "idle"

InitParse ==
    /\ IdleChapter /\ IdleStore
    /\ content \in Contents
    /\ via \in {"main", "web"}
    /\ text = <<>> /\ lines = <<>>
    /\ i = 1 /\ cur = <<>> /\ entries = <<>>
    /\ ppc = "read"

\* main: text = f.read_text(...) / import_questions: content = file.read().decode(...)
\* then the first statements of parse_blocks
ReadFile ==
    /\ ppc = "read"
    /\ text' = (IF via = "main" THEN read_text(content) ELSE read_upload(content))
    /\ lines' = text_lines(text')
    /\ i' = 1 /\ cur' = <<>> /\ entries' = <<>>
    /\ ppc' = "scan"
    /\ UNCHANGED <<content, via, cvars, svars>>

StartQuestion ==
    /\ ppc = "scan" /\ i <= Len(lines)
    /\ IsQuestionLine(lines, P)
    /\ SetP(start_question(lines, P))
    /\ UNCHANGED <<content, via, text, lines, ppc, cvars, svars>>

YourAnswer ==
    /\ ppc = "scan" /\ i <= Len(lines)
    /\ IsYourLine(lines, P)
    /\ SetP(your_answer(lines, P))
    /\ UNCHANGED <<content, via, text, lines, ppc, cvars, svars>>

CorrectAnswer ==
    /\ ppc = "scan" /\ i <= Len(lines)
    /\ IsCorrectLine(lines, P)
    /\ SetP(correct_answer(lines, P))
    /\ UNCHANGED <<content, via, text, lines, ppc, cvars, svars>>

IgnoreLine ==
    /\ ppc = "scan" /\ i <= Len(lines)
    /\ ~IsQuestionLine(lines, P) /\ ~IsYourLine(lines, P) /\ ~IsCorrectLine(lines, P)
    /\ SetP(skip_line(P))
    /\ UNCHANGED <<content, via, text, lines, ppc, cvars, svars>>

\* loop exit: the final flush() and "return entries"
ParseReturn ==
    /\ ppc = "scan" /\ i > Len(lines)
    /\ SetP(flush(P))
    /\ ppc' = "done"
    /\ UNCHANGED <<content, via, text, lines, cvars, svars>>

NextParse ==
    \/ ReadFile
    \/ StartQuestion
    \/ YourAnswer
    \/ CorrectAnswer
    \/ IgnoreLine
    \/ ParseReturn

SpecParse == InitParse /\ [][NextParse]_vars

-----------------------------------------------------------------------------
(* Claims about the parser                                                 *)

\* the question texts announced by the question-marker lines among ls[1..n]
RECURSIVE MarkedQuestions(_, _)
MarkedQuestions(ls, n) ==
    IF n = 0 THEN <<>>
    ELSE LET line == strip(ls[n]) IN
         IF startswith(line, LABEL_Q)
         THEN Append(MarkedQuestions(ls, n - 1), strip(after(line, LABEL_Q)))
         ELSE MarkedQuestions(ls, n - 1)

QuestionsOf(es) == [k \in 1..Len(es) |-> es[k].question]

\* C9: parse_blocks yields exactly one entry per line whose trimmed form
\* begins with the question marker, in source order, each with the trimmed
\* text after the marker as its question; at every point of the scan the
\* flushed entries followed by the open entry are exactly the marker lines
\* passed so far (each is appended once, at the next marker or at the end).
C9_OneEntryPerMarker ==
    /\ ppc = "scan" =>
          QuestionsOf(entries \o cur) =
              MarkedQuestions(lines, (IF i > Len(lines) THEN Len(lines) ELSE i - 1))
    /\ ppc = "done" =>
          /\ cur = <<>>
          /\ QuestionsOf(entries) = MarkedQuestions(lines, Len(lines))

C9_Witness ==
    /\ ppc = "done"
    /\ Len(entries) = 2
    /\ entries[1].question # entries[2].question
    /\ entries[1].correct # <<>>

\* line n begins with marker m
Begins(n, m) == startswith(strip(lines[n]), m)

\* the first line after line n that begins with one of the markers, the
\* end of the input when there is none
BlockEnd(n, markers) ==
    LET at == {j \in (n + 1)..Len(lines) : \E m \in markers : Begins(j, m)}
    IN  IF at = {} THEN Len(lines) + 1 ELSE CHOOSE j \in at : \A k \in at : j <= k

\* the text after marker m on line n, then the lines n+1..last, each
\* trimmed, the empty ones left out
BlockTexts(n, m, last) ==
    LET all == <<strip(after(strip(lines[n]), m))>>
                   \o [j \in 1..(last - n) |-> strip(lines[n + j])]
    IN  SelectSeq(all, LAMBDA t : t # <<>>)

\* C15: while an entry is open, a your-answer block ends at the first
\* following line that begins with the correct-answer, question or score
\* marker, a correct-answer block at the first that begins with the
\* question, score or your-answer marker; that line is not in the list and
\* is the line the outer scan handles next, a question marker there opening
\* a new entry.
C15_BlockBoundaries ==
    [][(ppc = "scan" /\ i <= Len(lines)) =>
          /\ (cur # <<>> /\ ~Begins(i, LABEL_Q) /\ Begins(i, LABEL_YOUR)) =>
                LET end == BlockEnd(i, {LABEL_CORRECT, LABEL_Q, LABEL_SCORE}) IN
                /\ i' = end
                /\ cur' = <<[cur[1] EXCEPT !.your = BlockTexts(i, LABEL_YOUR, end - 1)]>>
                /\ entries' = entries
          /\ (cur # <<>> /\ ~Begins(i, LABEL_Q) /\ ~Begins(i, LABEL_YOUR)
                         /\ Begins(i, LABEL_CORRECT)) =>
                LET end == BlockEnd(i, {LABEL_Q, LABEL_SCORE, LABEL_YOUR}) IN
                /\ i' = end
                /\ cur' = <<[cur[1] EXCEPT !.correct = BlockTexts(i, LABEL_CORRECT, end - 1)]>>
                /\ entries' = entries
          /\ Begins(i, LABEL_Q) =>
                /\ i' = i + 1
                /\ entries' = entries \o cur
                /\ cur' = <<[question |-> strip(after(strip(lines[i]), LABEL_Q)),
                             your |-> <<>>, correct |-> <<>>]>>]_vars

\* a correct-answer block of two texts has ended at a your-answer marker
\* line, which is the next line of the scan
C15_Witness ==
    /\ ppc = "scan" /\ i <= Len(lines) /\ cur # <<>>
    /\ Begins(i, LABEL_YOUR)
    /\ Len(cur[1].correct) = 2
    /\ cur[1].your = <<>>

\* C16: every text an answer block collects for the open entry (the inline
\* text and the non-blank lines of the block) is added to the entry's list
\* after what earlier blocks with the same marker collected, and the entry
\* is flushed with its lists as they are.
C16_NoAnswerLost ==
    [][(ppc = "scan" /\ cur # <<>>) =>
          IF i <= Len(lines) /\ ~Begins(i, LABEL_Q) /\ Begins(i, LABEL_YOUR)
          THEN cur'[1].your = cur[1].your \o BlockTexts(i, LABEL_YOUR, i' - 1)
          ELSE IF i <= Len(lines) /\ ~Begins(i, LABEL_Q) /\ Begins(i, LABEL_CORRECT)
          THEN cur'[1].correct = cur[1].correct \o BlockTexts(i, LABEL_CORRECT, i' - 1)
          ELSE IF i > Len(lines) \/ Begins(i, LABEL_Q)
          THEN entries' = entries \o cur
          ELSE cur' = cur]_vars

\* the lines that are not empty and not white space only
WithoutBlankLines(ls) == SelectSeq(ls, LAMBDA l : strip(l) # <<>>)

\* C17: lines that are empty or white space only, wherever they stand, do
\* not change the result: the text parses to the entries of the same text
\* without them.
C17_BlankLinesIgnored ==
    ppc = "done" =>
        entries = parse_loop(WithoutBlankLines(lines),
                             [i |-> 1, cur |-> <<>>, entries |-> <<>>])

C17_Witness ==
    /\ ppc = "done"
    /\ Len(lines) = 4
    /\ strip(lines[3]) = <<>> /\ lines[3] # <<>>
    /\ Len(entries) = 1
    /\ Len(entries[1].correct) = 2

\* C18: a line that does not begin with the question marker, does not begin
\* with an answer marker while an entry is open and is not consumed by an
\* answer block changes neither the open entry nor the output; as long as no
\* question-marker line has been passed there is no entry, open or flushed.
C18_IgnoredLines ==
    [][(ppc = "scan" /\ i <= Len(lines)) =>
          /\ (/\ ~Begins(i, LABEL_Q)
              /\ ~(cur # <<>> /\ (Begins(i, LABEL_YOUR) \/ Begins(i, LABEL_CORRECT))))
                => (cur' = cur /\ entries' = entries /\ i' = i + 1)
          /\ (\A n \in 1..(i' - 1) : n <= Len(lines) => ~Begins(n, LABEL_Q))
                => (cur' = <<>> /\ entries' = <<>>)]_vars

\* an answer-marker line before the first question, a score line and an
\* unmarked line after it have left the only entry without answers
C18_Witness ==
    /\ ppc = "done"
    /\ Len(lines) = 4
    /\ Begins(1, LABEL_CORRECT) /\ Begins(2, LABEL_Q) /\ Begins(3, LABEL_SCORE)
    /\ strip(lines[4]) # <<>>
    /\ \A m \in {LABEL_Q, LABEL_YOUR, LABEL_CORRECT, LABEL_SCORE} : ~Begins(4, m)
    /\ Len(entries) = 1
    /\ entries[1].your = <<>> /\ entries[1].correct = <<>>

\* the kinds of line that decide how the two loops move the cursor: the
\* four markers and a white-space-only line
ScanKinds == {
    LABEL_Q \o <<"a">>,
    LABEL_YOUR \o <<"a">>,
    LABEL_CORRECT,
    LABEL_SCORE \o <<"1">>,
    <<" ", "TAB">> }

\* texts of up to MaxLines such lines, read by the command line
InitScan ==
    /\ IdleChapter /\ IdleStore
    /\ content \in {join_lines(ls) : ls \in BoundedSeq(ScanKinds, MaxLines)}
    /\ via = "main"
    /\ text = <<>> /\ lines = <<>>
    /\ i = 1 /\ cur = <<>> /\ entries = <<>>
    /\ ppc = "read"

\* the parser run to completion: the interpreter keeps executing statements
SpecParseFair == InitScan /\ [][NextParse]_vars /\ WF_vars(NextParse)

\* line n ends an answer block of the branch taken at line k: it begins
\* with one of the markers the branch's inner loop breaks at
StopsBlock(k, n) ==
    \E m \in (IF Begins(k, LABEL_YOUR) THEN YourStops ELSE CorrectStops) : Begins(n, m)

\* one iteration of the outer loop moves the cursor from line i to a later
\* line i' no further than one past the end: line i is the one the outer
\* scan examines; the lines strictly between, if any, are those the answer
\* block opened at line i has consumed (none of them breaks the inner
\* loop); the line the cursor stops at, if any, is the one that broke it
\* and is left to the outer scan
CursorStep ==
    /\ i' >= i
    /\ (ppc = "scan" /\ ppc' = "scan") =>
          /\ lines' = lines
          /\ i < i' /\ i' <= Len(lines) + 1
          /\ i' > i + 1 =>
                /\ cur # <<>> /\ ~Begins(i, LABEL_Q)
                /\ Begins(i, LABEL_YOUR) \/ Begins(i, LABEL_CORRECT)
                /\ \A n \in (i + 1)..(i' - 1) : ~StopsBlock(i, n)
          /\ (i' > i + 1 /\ i' <= Len(lines)) => StopsBlock(i, i')

\* C22: for every input text parse_blocks terminates; the line cursor never
\* decreases, every iteration of the outer scan advances it by at least one
\* line, and every line is examined by the outer scan or consumed by exactly
\* one answer-collection block (the iterations cover disjoint, adjacent
\* ranges of lines, and the scan ends one past the last line).
C22_ParserTermination ==
    /\ <>(ppc = "done")
    /\ [][CursorStep]_vars
    /\ [](ppc = "done" => i = Len(lines) + 1)

\* a four-line transcript is parsed: the outer scan examined the question
\* line and the correct-answer line after it, whose block consumed a second
\* correct-answer line and a blank line up to the end of the text
C22_Witness ==
    /\ ppc = "done"
    /\ Len(lines) = 4 /\ i = 5
    /\ Begins(1, LABEL_Q) /\ Begins(2, LABEL_CORRECT) /\ Begins(3, LABEL_CORRECT)
    /\ strip(lines[4]) = <<>>
    /\ Len(entries) = 1 /\ entries[1].correct = <<LABEL_CORRECT>>

\* the input file with its leading byte-order mark removed
WithoutMark == IF content # <<>> /\ Head(content) = "BOM" THEN Tail(content) ELSE content

ReadVia(v, bytes) == IF v = "main" THEN read_text(bytes) ELSE read_upload(bytes)

\* C8: on both entry points a file that starts with a byte-order mark parses
\* to the same entries as the same file without the mark.
C8_MarkIgnored ==
    (ppc = "done" /\ content # <<>> /\ Head(content) = "BOM")
        => entries = parse_blocks(ReadVia(via, WithoutMark))

-----------------------------------------------------------------------------
(* determine_chapter                                                       *)

\* \w of the regular expression, for the characters of the alphabet
IsWord(c) == IsDigit(c) \/ c \in {"c", "h", "C", "H", "x", "t", "_"}

DigitValue(c) == CASE c = "0" -> 0 [] c = "1" -> 1 [] c = "2" -> 2 [] c = "3" -> 3
                   [] c = "4" -> 4 [] c = "5" -> 5 [] c = "6" -> 6 [] c = "7" -> 7
                   [] c = "8" -> 8 [] c = "9" -> 9

\* \b at the gap after position n of s (n = 0 is the start)
WordBoundary(s, n) ==
    LET before == n >= 1 /\ IsWord(s[n])
        behind == n < Len(s) /\ IsWord(s[n + 1])
    IN  before # behind

\* the number of digits \d{1,2} takes when r"\bch(\d{1,2})\b" is matched
\* at position n of s under re.IGNORECASE (greedy, then backtracking); 0: no match
MatchDigits(s, n) ==
    IF ~(/\ n + 2 <= Len(s)
         /\ WordBoundary(s, n - 1)
         /\ s[n] \in {"c", "C"} /\ s[n + 1] \in {"h", "H"}
         /\ IsDigit(s[n + 2]))
    THEN 0
    ELSE IF n + 3 <= Len(s) /\ IsDigit(s[n + 3]) /\ WordBoundary(s, n + 3) THEN 2
    ELSE IF WordBoundary(s, n + 2) THEN 1
    ELSE 0

\* int(m.group(1)) for a match at position n
GroupValue(s, n) ==
    IF MatchDigits(s, n) = 2 THEN 10 * DigitValue(s[n + 2]) + DigitValue(s[n + 3])
    ELSE DigitValue(s[n + 2])

\* re.search: the leftmost position with a match, 0 when there is none
re_search(s) ==
    IF \E n \in 1..Len(s) : MatchDigits(s, n) > 0
    THEN CHOOSE n \in 1..Len(s) :
            /\ MatchDigits(s, n) > 0
            /\ \A m \in 1..(n - 1) : MatchDigits(s, m) = 0
    ELSE 0

LowChapter == 0

HighChapter == 10

\* f"ch{n}"
ChapterTag(n) == IF n >= 10 THEN <<"c", "h", "1", "0">>
                 ELSE <<"c", "h">> \o <<(CHOOSE d \in {"0", "1", "2", "3", "4", "5", "6", "7", "8", "9"} : DigitValue(d) = n)>>

Unknown == <<"u", "n", "k", "n", "o", "w", "n">>

\* Path.stem: the final component without its last suffix
stem(name) ==
    LET dots == {n \in 1..Len(name) : name[n] = "."}
        last == IF dots = {} THEN 0 ELSE CHOOSE n \in dots : \A m \in dots : m <= n
    IN  IF 1 < last /\ last < Len(name) THEN SubSeq(name, 1, last - 1) ELSE name

RECURSIVE Reverse(_)
Reverse(s) == IF s = <<>> THEN <<>> ELSE Append(Reverse(Tail(s)), Head(s))

\* variant: the directories are examined from the outermost inward
SearchOrder_RootFirst(pth) == <<stem(pth.name)>> \o <<pth.name>> \o pth.dirs

\* [path.stem] + list(path.parts[::-1])
SearchOrder(pth) == <<stem(pth.name)>> \o <<pth.name>> \o Reverse(pth.dirs)

\* "return fallback if fallback else 'unknown'"
FallbackOrUnknown(fb) == IF fb # <<>> /\ fb[1] # <<>> THEN fb[1] ELSE Unknown

MaxPieces == 2

MaxDirs == 2

\* the words file and directory names are made of, and what separates them
NameWords == {
    <<"c", "h", "3">>,
    <<"C", "H", "1", "0">>,
    <<"c", "h", "9", "9">>,
    <<"c", "h", "0", "5">>,
    <<"x">> }

NameSeparators == {<<" ">>, <<"_">>}

NamePieces == {w \o sep : w \in NameWords, sep \in NameSeparators}

RECURSIVE Concat(_)
Concat(ss) == IF ss = <<>> THEN <<>> ELSE Head(ss) \o Concat(Tail(ss))

Names(n) == {Concat(ps) : ps \in BoundedSeq(NamePieces, n)}

TxtSuffix == <<".", "t", "x", "t">>

\* directory names: an in-range hint, one in upper case, an out-of-range one
DirNames == {<<"c", "h", "3">>, <<"C", "H", "1", "0">>, <<"c", "h", "9", "9">>}

\* path.parts without the root: directories from the outermost to the
\* innermost, then the file name
Paths == {[dirs |-> ds, name |-> n \o TxtSuffix] :
             ds \in BoundedSeq(DirNames, MaxDirs),
             n \in Names(MaxPieces)}

Fallbacks == {<<>>, << <<>> >>, << <<"c", "h", "7">> >>}

InitChapter ==
    /\ IdleParse /\ IdleStore
    /\ path \in Paths
    /\ fallback \in Fallbacks
    /\ parts = SearchOrder(path)
    /\ part_ix = 1 /\ chapter = <<>> /\ cpc = "loop"

\* a loop iteration whose part has a match with 0 <= n <= 10: return f"ch{n}"
ReturnHint ==
    /\ cpc = "loop" /\ part_ix <= Len(parts)
    /\ LET n == re_search(parts[part_ix]) IN
          /\ n > 0
          /\ LowChapter <= GroupValue(parts[part_ix], n) /\ GroupValue(parts[part_ix], n) <= HighChapter
          /\ chapter' = <<ChapterTag(GroupValue(parts[part_ix], n))>>
    /\ cpc' = "done"
    /\ UNCHANGED <<path, fallback, parts, part_ix, pvars, svars>>

\* a loop iteration whose part has no match, or a match out of range
NextPart ==
    /\ cpc = "loop" /\ part_ix <= Len(parts)
    /\ LET n == re_search(parts[part_ix]) IN
          \/ n = 0
          \/ n > 0 /\ ~(/\ LowChapter <= GroupValue(parts[part_ix], n)
                        /\ GroupValue(parts[part_ix], n) <= HighChapter)
    /\ part_ix' = part_ix + 1
    /\ UNCHANGED <<path, fallback, parts, chapter, cpc, pvars, svars>>

\* the loop ran out of parts
ReturnFallback ==
    /\ cpc = "loop" /\ part_ix > Len(parts)
    /\ chapter' = <<FallbackOrUnknown(fallback)>>
    /\ cpc' = "done"
    /\ UNCHANGED <<path, fallback, parts, part_ix, pvars, svars>>

NextChapter ==
    \/ ReturnHint
    \/ NextPart
    \/ ReturnFallback

SpecChapter == InitChapter /\ [][NextChapter]_vars

-----------------------------------------------------------------------------
(* Claims about the chapter resolver                                       *)

\* the values of the whole-word tokens "ch" + 1-2 digits of a segment that
\* lie in 0..10
InRangeTokens(s) ==
    {GroupValue(s, n) : n \in {m \in 1..Len(s) :
        /\ MatchDigits(s, m) > 0
        /\ GroupValue(s, m) \in LowChapter..HighChapter}}

ExaminedTokens == UNION {InRangeTokens(parts[n]) : n \in 1..Len(parts)}

\* C10: determine_chapter always returns a value; it returns the override
\* (or "unknown") only if no examined segment contains an in-range token, and
\* whenever some segment contains one the result is a "chN" tag with N in 0..10.
C10_HintWheneverPresent ==
    cpc = "done" =>
        /\ chapter # <<>>
        /\ part_ix > Len(parts) => ExaminedTokens = {}
        /\ ExaminedTokens # {} =>
              \E n \in LowChapter..HighChapter : chapter[1] = ChapterTag(n)

\* the value of the leftmost "ch" + 1-2 digits token of a segment, -1 when
\* the segment has none
HintOf(s) ==
    LET at == {n \in 1..Len(s) : MatchDigits(s, n) > 0} IN
    IF at = {} THEN -1
    ELSE GroupValue(s, CHOOSE n \in at : \A m \in at : n <= m)

\* the segments in the order of the claim: stem, file name, then the
\* directories from the innermost outward
StemThenInnermostFirst ==
    <<stem(path.name), path.name>>
        \o [n \in 1..Len(path.dirs) |-> path.dirs[Len(path.dirs) + 1 - n]]

\* C11: determine_chapter returns "ch" + value, without leading zeros, of
\* the first segment in the order stem, file name, directories from the
\* innermost outward whose match has a value in 0..10; a segment whose match
\* is out of range is passed over; the override (or "unknown") is returned
\* only when no segment has such a match.
C11_ResolutionOrder ==
    cpc = "done" =>
        LET order == StemThenInnermostFirst
            hits  == {n \in 1..Len(order) : HintOf(order[n]) \in LowChapter..HighChapter}
        IN  IF hits = {}
            THEN chapter = <<FallbackOrUnknown(fallback)>>
            ELSE LET first == CHOOSE n \in hits : \A m \in hits : n <= m
                 IN  chapter = <<ChapterTag(HintOf(order[first]))>>

C11_Witness ==
    /\ cpc = "done"
    /\ HintOf(stem(path.name)) = 99
    /\ path.dirs = << <<"c", "h", "3">>, <<"C", "H", "1", "0">> >>
    /\ fallback = << <<"c", "h", "7">> >>
    /\ chapter = << <<"c", "h", "1", "0">> >>

-----------------------------------------------------------------------------
(* The upsert engine as a state machine over one database                  *)

MaxCalls == 2

MaxEntries == 1

\* question texts: two that differ only in white-space layout
QuestionTexts == {
    <<"a", " ", "b">>,
    <<" ", "a", "TAB", " ", "b">> }

\* answered entries: one answer; the other layout of the text with the
\* sentinel text twice around a blank string
AnsweredEntries == {
    [question |-> <<"a", " ", "b">>, correct |-> << <<"A">> >>],
    [question |-> <<" ", "a", "TAB", " ", "b">>, correct |-> << Sentinel, <<" ">>, Sentinel >>] }

\* unanswered entries: a blank string only; the padded sentinel and an empty string
UnansweredEntries == {
    [question |-> <<"a", " ", "b">>, correct |-> << <<" ">> >>],
    [question |-> <<" ", "a", "TAB", " ", "b">>,
     correct |-> << <<" ">> \o Sentinel \o <<" ">>, <<>> >>] }

Entries == AnsweredEntries \cup UnansweredEntries

Chapters == {<<"c", "h", "1">>, <<"c", "h", "2">>}

\* str(f) of the command line, the source label of the web handler
SourceOf(p) == IF p = "main" THEN <<"a.txt">> ELSE <<"Direct Text Input">>

\* the database a process reads and writes: its own open transaction, else
\* the committed state
View(p) == IF lock = p THEN tx ELSE store

KeysOf(db) == {<<r.chapter, r.q_text_norm>> : r \in db.questions}

TotalCalls == proc["main"].calls + proc["web"].calls

Init ==
    /\ IdleParse /\ IdleChapter
    /\ IdleStore

\* sqlite3.connect, the DDL script and the four counters set to 0
BeginBatch(p) ==
    /\ proc[p].pc \in {"idle", "failed"}
    /\ proc[p].conn = "closed"
    /\ TotalCalls < MaxCalls
    /\ \E ch \in Chapters :
          proc' = [proc EXCEPT ![p] =
                      [IdleProc EXCEPT !.pc = "loop", !.chapter = ch,
                                       !.source_file = SourceOf(p),
                                       !.calls = proc[p].calls + 1,
                                       !.grand_totals = proc[p].grand_totals,
                                       !.conn = "open"]]
    /\ UNCHANGED <<store, lock, tx, ev, hist, pvars, cvars>>

\* the rows with the key of entry e in chapter ch
KeyIds(db, ch, e) == select_question_id(db, ch, normalize_text(strip(e.question)))

\* which branch of the loop body entry e takes on database db
BranchOf(db, ch, e) ==
    IF is_unanswered(stripped_nonempty(e.correct)) THEN "unanswered"
    ELSE IF KeyIds(db, ch, e) = {} THEN "inserted" ELSE "duplicate"

\* a loop iteration, of kind "unanswered", "inserted" or "duplicate"; an
\* iteration that executes SQL opens the write transaction if none is open
Iteration(p, e, kind) ==
    /\ proc[p].pc = "loop"
    /\ proc[p].done < MaxEntries
    /\ kind # "unanswered" => lock \in {"", p}
    /\ BranchOf(View(p), proc[p].chapter, e) = kind
    /\ LET r == upsert_entry(View(p), proc[p].chapter, proc[p].source_file, e)
           counts == AddCounts(proc[p].counts, r)
           ids == KeyIds(r.db, proc[p].chapter, e)
       IN /\ proc' = [proc EXCEPT ![p].done = @ + 1, ![p].counts = counts]
          /\ IF kind = "unanswered"
             THEN UNCHANGED <<lock, tx>>
             ELSE lock' = p /\ tx' = r.db
          /\ ev' = [who |-> p, kind |-> r.kind, chapter |-> proc[p].chapter, entry |-> e,
                    q_id |-> r.q_id,
                    pre |-> Snapshot(View(p), ids, proc[p].counts),
                    post |-> Snapshot(r.db, ids, counts)]
    /\ UNCHANGED <<store, hist, pvars, cvars>>

SkipUnanswered(p) == \E e \in Entries : Iteration(p, e, "unanswered")

InsertQuestion(p) == \E e \in Entries : Iteration(p, e, "inserted")

DuplicateQuestion(p) == \E e \in Entries : Iteration(p, e, "duplicate")

\* the locals of a call an exception has left: the counters are lost, the
\* connection is still open
Raised(pr) == [IdleProc EXCEPT !.pc = "failed", !.calls = pr.calls,
                               !.grand_totals = pr.grand_totals, !.conn = pr.conn]

\* an INSERT while the other process holds the write lock for longer than
\* the connection's timeout: sqlite3.OperationalError leaves the call
LockTimeout(p) ==
    /\ proc[p].pc = "loop"
    /\ proc[p].done < MaxEntries
    /\ lock \notin {"", p}
    /\ proc' = [proc EXCEPT ![p] = Raised(proc[p])]
    /\ UNCHANGED <<store, lock, tx, ev, hist, pvars, cvars>>

\* any statement, conn.commit() included, raises sqlite3.Error (disk full,
\* I/O error): the exception leaves the call, which has no handler and no
\* finally; the connection object stays as it is
StorageFailure(p) ==
    /\ proc[p].pc = "loop"
    /\ proc' = [proc EXCEPT ![p] = Raised(proc[p])]
    /\ UNCHANGED <<store, lock, tx, ev, hist, pvars, cvars>>

\* variant: the abandoned connection commits when it goes away
ConnectionDropped_Commit(p) ==
    /\ proc[p].pc = "failed" /\ proc[p].conn = "open"
    /\ store' = View(p)
    /\ lock' = (IF lock = p THEN "" ELSE lock)
    /\ proc' = [proc EXCEPT ![p].conn = "closed"]
    /\ UNCHANGED <<tx, ev, hist, pvars, cvars>>

\* the connection of a failed call goes away later, when the interpreter
\* frees the object or the process ends: SQLite rolls the open transaction
\* back and drops the lock
ConnectionDropped(p) ==
    /\ proc[p].pc = "failed" /\ proc[p].conn = "open"
    /\ lock' = (IF lock = p THEN "" ELSE lock)
    /\ proc' = [proc EXCEPT ![p].conn = "closed"]
    /\ UNCHANGED <<store, tx, ev, hist, pvars, cvars>>

\* conn.commit(), conn.close() and the return of the counters, which the
\* caller adds to its totals ("grand_totals[k] += v")
Commit(p) ==
    /\ proc[p].pc = "loop"
    /\ store' = View(p)
    /\ lock' = (IF lock = p THEN "" ELSE lock)
    /\ UNCHANGED tx
    /\ proc' = [proc EXCEPT ![p].pc = "idle",
                            ![p].conn = "closed",
                            ![p].grand_totals =
                                AddCounts(@, proc[p].counts)]
    /\ UNCHANGED <<ev, hist, pvars, cvars>>

Next ==
    \E p \in Procs :
        \/ BeginBatch(p)
        \/ SkipUnanswered(p)
        \/ InsertQuestion(p)
        \/ DuplicateQuestion(p)
        \/ LockTimeout(p)
        \/ StorageFailure(p)
        \/ ConnectionDropped(p)
        \/ Commit(p)

Spec == Init /\ [][Next]_vars

-----------------------------------------------------------------------------
(* Claims about the upsert engine, one loop iteration at a time            *)

UniqueRows(db) ==
    /\ \A r1, r2 \in db.questions :
          (r1.chapter = r2.chapter /\ r1.q_text_norm = r2.q_text_norm) => r1 = r2
    /\ \A a1, a2 \in db.answers :
          (/\ a1.question_id = a2.question_id /\ a1.position = a2.position
           /\ a1.answer_text = a2.answer_text) => a1 = a2

\* C2: in every reachable state, committed or inside an open transaction,
\* no two Question rows share (chapter, normalizedText) and no two Answer
\* rows share (questionId, position, text).
C2_UniqueKeys == UniqueRows(store) /\ UniqueRows(tx)

C2_Witness ==
    /\ proc["main"].calls >= 1 /\ proc["web"].calls >= 1
    /\ ev.kind = "duplicate" /\ lock = ""
    /\ Cardinality(store.answers) >= 2

\* the entry of the last iteration: its question after strip, its correct
\* answers trimmed with the empty ones dropped
EvQuestion == strip(ev.entry.question)

EvCorrect ==
    LET trimmed == [n \in 1..Len(ev.entry.correct) |-> strip(ev.entry.correct[n])]
    IN  SelectSeq(trimmed, LAMBDA a : a # <<>>)

\* the (position, text) pairs of a set of answer rows
Placed(rows) == {<<r.position, r.answer_text>> : r \in rows}

\* C3: an entry whose (chapter, normalized key) is already stored counts one
\* duplicate, resolves to the id of the stored row and leaves that row (id,
\* text, normalizedText, type, sourceLabel) as it was.
C3_DuplicateLeavesRow ==
    ev.kind = "duplicate" =>
        /\ ev.post.counts.skipped_q = ev.pre.counts.skipped_q + 1
        /\ ev.post.counts.inserted_q = ev.pre.counts.inserted_q
        /\ \E r \in ev.pre.questions :
              /\ r.chapter = ev.chapter /\ r.q_text_norm = normalize_text(EvQuestion)
              /\ ev.q_id = r.id
        /\ ev.post.questions = ev.pre.questions
        /\ ev.post.qseq = ev.pre.qseq

C3_Witness ==
    /\ ev.kind = "duplicate"
    /\ \E r \in ev.post.questions :
          /\ r.id = ev.q_id
          /\ r.q_text # EvQuestion
          /\ r.source_file # SourceOf(ev.who)

\* C4: an entry whose cleaned correct-answer list is empty or is the lone
\* sentinel creates no row, adds one to skipped_unanswered and changes no
\* other counter; every other entry leaves skipped_unanswered alone.
C4_FilterUnanswered ==
    ev.kind # "none" =>
        IF EvCorrect = <<>> \/ EvCorrect = <<Sentinel>>
        THEN /\ ev.kind = "unanswered"
             /\ ev.post.questions = ev.pre.questions /\ ev.post.answers = ev.pre.answers
             /\ ev.post.qseq = ev.pre.qseq /\ ev.post.aseq = ev.pre.aseq
             /\ ev.post.counts =
                   [ev.pre.counts EXCEPT !.skipped_unanswered = @ + 1]
        ELSE /\ ev.kind # "unanswered"
             /\ ev.post.counts.skipped_unanswered = ev.pre.counts.skipped_unanswered

C4_Witness ==
    /\ ev.kind = "unanswered"
    /\ Len(ev.entry.correct) = 2
    /\ EvCorrect = <<Sentinel>>
    /\ ev.pre.qseq >= 1

\* the answer rows the last iteration created
CreatedAnswers == ev.post.answers \ ev.pre.answers

\* "creates exactly k rows, the i-th with position i and the i-th text"
CreatesAllAnswers ==
    /\ ev.post.aseq = ev.pre.aseq + Len(EvCorrect)
    /\ Cardinality(CreatedAnswers) = Len(EvCorrect)
    /\ \A r \in CreatedAnswers : r.question_id = ev.q_id
    /\ Placed(CreatedAnswers) = {<<n, EvCorrect[n]>> : n \in 1..Len(EvCorrect)}

\* C5 as stated: every entry that passes the filter creates exactly k Answer
\* rows for its question, row i with position i and the i-th surviving text.
C5_PositionFidelity_AsStated ==
    ev.kind \in {"inserted", "duplicate"} => CreatesAllAnswers

\* C5 amended: an entry that passes the filter and whose question is newly
\* inserted creates exactly k Answer rows for it, row i with position i and
\* the i-th surviving text, also when a text occurs twice; these are then all
\* the answers the question owns.
C5_PositionFidelity ==
    ev.kind = "inserted" =>
        /\ CreatesAllAnswers
        /\ {r \in ev.post.answers : r.question_id = ev.q_id} = CreatedAnswers

C5_Witness ==
    /\ ev.kind = "inserted"
    /\ Len(EvCorrect) = 2 /\ EvCorrect[1] = EvCorrect[2]
    /\ Len(ev.entry.correct) = 3
    /\ Cardinality(CreatedAnswers) = 2

\* C6: an entry that resolves to a stored Question and carries another
\* correct-answer list than the one stored leaves the Answer rows of that
\* Question as they were.
C6_NoAnswerMerge ==
    (/\ ev.kind = "duplicate"
     /\ Placed({r \in ev.pre.answers : r.question_id = ev.q_id})
            # {<<n, EvCorrect[n]>> : n \in 1..Len(EvCorrect)})
        => ev.post.answers = ev.pre.answers

\* no batch is running: every call has committed or failed
NoBatchRunning == \A p \in Procs : proc[p].pc # "loop"

\* the two processes have each committed one batch with answered entries
\* into the same chapter, and nothing else was imported
TwoBatchesSameKey ==
    /\ \A p \in Procs : proc[p].pc = "idle" /\ proc[p].calls = 1
    /\ proc["main"].chapter = proc["web"].chapter
    /\ \A p \in Procs : proc[p].counts.inserted_q + proc[p].counts.skipped_q >= 1

\* C12: starting from the empty store, whenever all batches have committed
\* the inserted_questions counters add up to the number of Question rows and
\* the inserted_answers counters to the number of Answer rows; two batches
\* that import the same (chapter, normalized question) leave one Question
\* row, counted as inserted by exactly one of them and as duplicate by the other.
C12_CounterAccuracy ==
    /\ NoBatchRunning =>
          /\ proc["main"].grand_totals.inserted_q + proc["web"].grand_totals.inserted_q
                = Cardinality(store.questions)
          /\ proc["main"].grand_totals.inserted_a + proc["web"].grand_totals.inserted_a
                = Cardinality(store.answers)
    /\ TwoBatchesSameKey =>
          /\ Cardinality(store.questions) = 1
          /\ \E p, q \in Procs :
                /\ p # q
                /\ proc[p].counts.inserted_q = 1
                /\ proc[q].counts.inserted_q = 0 /\ proc[q].counts.skipped_q >= 1

C12_Witness ==
    /\ TwoBatchesSameKey
    /\ proc["web"].counts.inserted_q = 1 /\ proc["main"].counts.skipped_q = 1
    /\ Cardinality(store.answers) = 3
    /\ proc["main"].grand_totals.inserted_a = 2

\* C13: the persisted store changes only at the one commit that ends a
\* batch, and then to what that batch's transaction holds; a call that a
\* storage failure ends returns no counters and leaves the persisted store,
\* with the rows of earlier batches, as it was, then and when its
\* connection goes away.
C13_SingleCommit ==
    [][/\ store' # store =>
             \E p \in Procs :
                 /\ proc[p].pc = "loop" /\ proc'[p].pc = "idle"
                 /\ store' = View(p)
       /\ \A p \in Procs :
             (proc[p].pc = "loop" /\ proc'[p].pc = "failed") =>
                 /\ store' = store
                 /\ proc'[p].grand_totals = proc[p].grand_totals
       /\ \A p \in Procs :
             (proc[p].pc = "failed" /\ proc[p].conn = "open" /\ proc'[p].conn = "closed") =>
                 /\ store' = store
                 /\ (lock = p => lock' = "")]_vars

C13_Witness ==
    \E p \in Procs :
        /\ proc[p].pc = "failed" /\ proc[p].conn = "closed"
        /\ ev.who = p /\ ev.kind = "inserted"
        /\ store.questions # {}
        /\ \A r \in store.questions : r.id # ev.q_id /\ r.source_file # SourceOf(p)
        /\ lock = ""

\* C19: on every exit path of the call, the one where a storage operation
\* raises included, the connection of the batch has been closed.
C19_ConnectionReleased ==
    \A p \in Procs : proc[p].pc # "loop" => proc[p].conn = "closed"

\* the positions the Answer rows of question q_id use in database db
PositionsOf(db, q_id) == {r.position : r \in {a \in db.answers : a.question_id = q_id}}

\* C21: in every committed state of the store, every Question row owns at
\* least one Answer row and the positions its Answer rows use are exactly
\* 1..m for some m >= 1; one position may hold several rows.
C21_AnswerPositionShape ==
    \A q \in store.questions :
        \E m \in 1..Cardinality(store.answers) : PositionsOf(store, q.id) = 1..m

\* two committed batches have left one question with the positions 1 and 2
\* and two rows of different texts at position 1
C21_Witness ==
    /\ NoBatchRunning
    /\ \E q \in store.questions :
          /\ PositionsOf(store, q.id) = 1..2
          /\ \E a, b \in store.answers :
                /\ a.question_id = q.id /\ b.question_id = q.id
                /\ a.position = 1 /\ b.position = 1
                /\ a.answer_text # b.answer_text

-----------------------------------------------------------------------------
(* The upsert engine one SQL statement at a time: the other connection     *)
(* acts between the INSERT OR IGNORE of a question and the SELECT after it *)

MaxBatches == 3

MaxPerBatch == 1

\* the locals of a call between two statements: q and correct of the entry
\* in hand, cur.rowcount and q_id, and the branch the last entry took
StmtIdle == [pc |-> "idle", chapter |-> <<>>, source_file |-> <<>>, done |-> 0,
             counts |-> NoCounts, calls |-> 0, conn |-> "closed",
             q |-> <<>>, correct |-> <<>>, rowcount |-> 0, q_id |-> 0, last |-> "none"]

InitStmt ==
    /\ IdleParse /\ IdleChapter
    /\ store = EmptyDB /\ lock = "" /\ tx = EmptyDB
    /\ proc = [p \in Procs |-> StmtIdle]
    /\ ev = NoEvent /\ hist = <<>>

\* sqlite3.connect, the DDL script and the four counters set to 0
OpenConnection(p) ==
    /\ proc[p].pc \in {"idle", "failed"}
    /\ proc[p].conn = "closed"
    /\ TotalCalls < MaxBatches
    /\ \E ch \in Chapters :
          proc' = [proc EXCEPT ![p] =
                      [StmtIdle EXCEPT !.pc = "loop", !.chapter = ch,
                                       !.source_file = SourceOf(p),
                                       !.calls = proc[p].calls + 1,
                                       !.conn = "open"]]
    /\ UNCHANGED <<store, lock, tx, ev, hist, pvars, cvars>>

\* "for e in entries" up to the filter: an unanswered entry is counted and
\* the loop continues
SkipEntry(p) ==
    /\ proc[p].pc = "loop"
    /\ proc[p].done < MaxPerBatch
    /\ \E e \in Entries :
          /\ is_unanswered(stripped_nonempty(e.correct))
          /\ proc' = [proc EXCEPT ![p].done = @ + 1,
                                  ![p].counts.skipped_unanswered = @ + 1,
                                  ![p].last = "unanswered"]
    /\ UNCHANGED <<store, lock, tx, ev, hist, pvars, cvars>>

\* the INSERT OR IGNORE of the question, which opens the write transaction
\* if none is open, and "if cur.rowcount == 1: inserted_q += 1; q_id = cur.lastrowid"
ExecInsertQuestion(p) ==
    /\ proc[p].pc = "loop"
    /\ proc[p].done < MaxPerBatch
    /\ lock \in {"", p}
    /\ \E e \in Entries :
          LET q       == strip(e.question)
              correct == stripped_nonempty(e.correct)
              ins     == insert_or_ignore_question(View(p), proc[p].chapter, q,
                                                   normalize_text(q), detect_type(q),
                                                   proc[p].source_file)
          IN  /\ ~is_unanswered(correct)
              /\ lock' = p /\ tx' = ins.db
              /\ proc' = [proc EXCEPT
                            ![p].q = q, ![p].correct = correct,
                            ![p].rowcount = ins.rowcount,
                            ![p].q_id = ins.lastrowid,
                            ![p].counts.inserted_q = @ + ins.rowcount,
                            ![p].last = IF ins.rowcount = 1 THEN "inserted" ELSE "none",
                            ![p].pc = IF ins.rowcount = 1 THEN "answers" ELSE "select"]
    /\ UNCHANGED <<store, ev, hist, pvars, cvars>>

\* the SELECT of the existing id, "row = cur.fetchone()" and the two
\* branches on row: "if not row: skipped_q += 1; continue", else
\* "q_id = row[0]; skipped_q += 1"
ExecSelect(p) ==
    /\ proc[p].pc = "select"
    /\ LET row == select_question_id(View(p), proc[p].chapter, normalize_text(proc[p].q))
       IN  IF row = {}
           THEN proc' = [proc EXCEPT ![p].counts.skipped_q = @ + 1,
                                     ![p].last = "vanished",
                                     ![p].done = @ + 1,
                                     ![p].pc = "loop"]
           ELSE proc' = [proc EXCEPT ![p].counts.skipped_q = @ + 1,
                                     ![p].last = "duplicate",
                                     ![p].q_id = CHOOSE id \in row : TRUE,
                                     ![p].pc = "answers"]
    /\ UNCHANGED <<store, lock, tx, ev, hist, pvars, cvars>>

\* the answer loop of the entry in hand
ExecInsertAnswers(p) ==
    /\ proc[p].pc = "answers"
    /\ LET a == insert_answers(View(p), proc[p].q_id, proc[p].correct, 1)
       IN  /\ tx' = a.db
           /\ proc' = [proc EXCEPT ![p].counts.inserted_a = @ + a.inserted_a,
                                   ![p].done = @ + 1,
                                   ![p].pc = "loop"]
    /\ UNCHANGED <<store, lock, ev, hist, pvars, cvars>>

\* the locals of a call an exception has left; the connection stays open
StmtRaised(pr, why) == [StmtIdle EXCEPT !.pc = "failed", !.calls = pr.calls,
                                        !.conn = pr.conn, !.last = why]

\* the INSERT of a question finds the write lock held by the other
\* connection for longer than the timeout: sqlite3.OperationalError
Busy(p) ==
    /\ proc[p].pc = "loop"
    /\ proc[p].done < MaxPerBatch
    /\ lock \notin {"", p}
    /\ proc' = [proc EXCEPT ![p] = StmtRaised(proc[p], "busy")]
    /\ UNCHANGED <<store, lock, tx, ev, hist, pvars, cvars>>

\* any statement, the SELECT and conn.commit() included, raises sqlite3.Error
Fails(p) ==
    /\ proc[p].pc \in {"loop", "select", "answers"}
    /\ proc' = [proc EXCEPT ![p] = StmtRaised(proc[p], "error")]
    /\ UNCHANGED <<store, lock, tx, ev, hist, pvars, cvars>>

\* the connection of a failed call goes away: its transaction is rolled back
Dropped(p) ==
    /\ proc[p].pc = "failed" /\ proc[p].conn = "open"
    /\ lock' = (IF lock = p THEN "" ELSE lock)
    /\ proc' = [proc EXCEPT ![p].conn = "closed"]
    /\ UNCHANGED <<store, tx, ev, hist, pvars, cvars>>

\* conn.commit(), conn.close() and the return
CommitClose(p) ==
    /\ proc[p].pc = "loop"
    /\ store' = View(p)
    /\ lock' = (IF lock = p THEN "" ELSE lock)
    /\ proc' = [proc EXCEPT ![p].pc = "idle", ![p].conn = "closed"]
    /\ UNCHANGED <<tx, ev, hist, pvars, cvars>>

NextStmt ==
    \E p \in Procs :
        \/ OpenConnection(p)
        \/ SkipEntry(p)
        \/ ExecInsertQuestion(p)
        \/ ExecSelect(p)
        \/ ExecInsertAnswers(p)
        \/ Busy(p)
        \/ Fails(p)
        \/ Dropped(p)
        \/ CommitClose(p)

SpecStmt == InitStmt /\ [][NextStmt]_vars

\* C23: in any interleaving of batches, none of which deletes a Question
\* row, whenever the INSERT OR IGNORE of a question has affected no row the
\* lookup by (chapter, normalized text) returns a row, at every moment until
\* the SELECT runs; the branch that counts a duplicate without a question id
\* is never taken.
C23_LookupSucceeds ==
    \A p \in Procs :
        /\ proc[p].last # "vanished"
        /\ proc[p].pc = "select" =>
              select_question_id(View(p), proc[p].chapter, normalize_text(proc[p].q)) # {}

\* a connection whose INSERT OR IGNORE met a committed row waits at its
\* SELECT while the other connection has timed out on the write lock
C23_Witness ==
    \E p, o \in Procs :
        /\ p # o
        /\ proc[p].pc = "select" /\ proc[p].rowcount = 0 /\ lock = p
        /\ proc[o].last = "busy"
        /\ store.questions # {}

-----------------------------------------------------------------------------
(* Whole imports one after the other: a file (or a pasted text) is parsed  *)
(* and its entries are upserted; the same input may be imported again      *)

MaxRuns == 3

\* blocks of an export: a question with one answer; the same question in
\* another white-space layout with the sentinel text twice; an unanswered one
OneAnswer == << LABEL_Q \o <<"a", " ", "b">>, LABEL_CORRECT, <<"A">> >>

TwoAnswers ==
    << LABEL_Q \o <<" ", "a", "TAB", " ", "b">>, LABEL_CORRECT \o Sentinel, <<>>, Sentinel >>

NotAnswered == << LABEL_Q \o <<"a", " ", "b">>, LABEL_YOUR \o <<"A">>, LABEL_CORRECT \o Sentinel >>

\* the sample transcript: a question with your answer "A" and the correct
\* answer "A" continued on the next line, an empty line, a fill-in question
\* with the sentinel as correct answer
SampleTranscript ==
    << LABEL_Q \o <<"o", "s", "?">>,
       LABEL_YOUR \o <<"A">>,
       LABEL_CORRECT \o <<"A">>,
       <<"h", "w">>,
       <<>>,
       LABEL_Q \o <<"[", "_", "_", "1", "_", "_", "]", "p", "g">>,
       LABEL_CORRECT \o Sentinel >>

RunTexts ==
    {join_lines(Concat(bs)) :
        bs \in {<<OneAnswer>>, <<TwoAnswers>>, <<NotAnswered>>,
                <<OneAnswer, TwoAnswers>>, <<NotAnswered, TwoAnswers, OneAnswer>>,
                <<SampleTranscript>>}}

\* "text = f.read_text(...)" / "content = file.read().decode(...)" and
\* "entries = parse_blocks(text)" for each process and input
ParsedRuns == [p \in Procs |-> [t \in RunTexts |-> parse_blocks(ReadVia(p, t))]]

Runs == IF hist = <<>> THEN 0 ELSE hist[1].n

InitRuns ==
    /\ IdleParse /\ IdleChapter
    /\ IdleStore

\* "upsert_entries(db_path, entries,
\* chapter, str(f))" / "import_questions_from_entries(entries, chapter.lower(), ...)"
Run(p, t, ch, first) ==
    LET es == ParsedRuns[p][t]
        r  == upsert_entries(store, es, ch, SourceOf(p))
    IN  /\ Runs < MaxRuns
        /\ store' = r.db
        /\ hist' = << [n |-> Runs + 1, who |-> p, text |-> t, chapter |-> ch,
                       entries |-> es, before |-> store, counts |-> r.counts,
                       first |-> first] >>
        /\ UNCHANGED <<lock, tx, proc, ev, pvars, cvars>>

\* an input is imported
Import(p) == \E t \in RunTexts : \E ch \in Chapters : Run(p, t, ch, <<>>)

\* the input of the last import is imported again into the same chapter
ImportAgain(p) ==
    /\ hist # <<>>
    /\ Run(p, hist[1].text, hist[1].chapter,
           << [keys |-> KeysOf(hist[1].before), counts |-> hist[1].counts] >>)

NextRuns == \E p \in Procs : Import(p) \/ ImportAgain(p)

SpecRuns == InitRuns /\ [][NextRuns]_vars

-----------------------------------------------------------------------------
(* Claims about whole imports                                              *)

\* the entries that survive the filter
Survivors(es) ==
    {n \in 1..Len(es) :
        LET trimmed == [m \in 1..Len(es[n].correct) |-> strip(es[n].correct[m])]
            kept    == SelectSeq(trimmed, LAMBDA a : a # <<>>)
        IN  kept # <<>> /\ kept # <<Sentinel>>}

\* the second of two imports of the same input into the same chapter inserts
\* nothing, skips every surviving entry as a duplicate and leaves the rows alone
SecondRunInsertsNothing ==
    /\ hist[1].counts.inserted_q = 0
    /\ hist[1].counts.inserted_a = 0
    /\ hist[1].counts.skipped_q = Cardinality(Survivors(hist[1].entries))
    /\ store.questions = hist[1].before.questions
    /\ store.answers = hist[1].before.answers

FirstRunInserts ==
    /\ hist[1].first[1].counts.inserted_q > 0
    /\ hist[1].first[1].counts.inserted_a > 0

\* C1 as stated: for every text with a surviving entry and every chapter, the
\* first of two imports in a row reports inserted_questions > 0 and
\* inserted_answers > 0, the second reports 0 and 0, skips as many duplicates
\* as there are surviving entries and leaves the rows as the first left them.
C1_Idempotence_AsStated ==
    (/\ hist # <<>> /\ hist[1].first # <<>>
     /\ Survivors(hist[1].entries) # {})
        => FirstRunInserts /\ SecondRunInsertsNothing

\* C1 amended: the second import always reports 0 and 0, skips as many
\* duplicates as there are surviving entries and leaves the rows as the first
\* left them; the first reports inserted_questions > 0 and inserted_answers > 0
\* when, before it, the store lacks the (chapter, normalized text) key of one
\* of the surviving entries, as in an empty store.
C1_Idempotence ==
    (/\ hist # <<>> /\ hist[1].first # <<>>
     /\ Survivors(hist[1].entries) # {})
        => /\ SecondRunInsertsNothing
           /\ (\E n \in Survivors(hist[1].entries) :
                  <<hist[1].chapter, normalize_text(hist[1].entries[n].question)>>
                      \notin hist[1].first[1].keys)
                 => FirstRunInserts

C1_Witness ==
    /\ hist # <<>> /\ hist[1].first # <<>>
    /\ Cardinality(Survivors(hist[1].entries)) = 2
    /\ Len(hist[1].entries) = 2
    /\ hist[1].first[1].keys = {}
    /\ hist[1].first[1].counts.inserted_q = 1
    /\ hist[1].first[1].counts.skipped_q = 1
    /\ hist[1].counts.skipped_q = 2

\* the white-space-free pieces of a text, in order: two texts differ only in
\* leading, trailing or internal white-space runs when these are equal
RECURSIVE Words(_)
Words(s) ==
    LET t == lstrip(s) IN
    IF t = <<>> THEN <<>>
    ELSE LET stop == IF \E n \in 1..Len(t) : isspace(t[n])
                     THEN CHOOSE n \in 1..Len(t) :
                              isspace(t[n]) /\ \A m \in 1..(n - 1) : ~isspace(t[m])
                     ELSE Len(t) + 1
         IN  <<SubSeq(t, 1, stop - 1)>> \o Words(SubSeq(t, stop, Len(t)))

\* surviving entry n of the last import and the rows stored before it
HeldBefore(n) ==
    \E r \in hist[1].before.questions :
        /\ r.chapter = hist[1].chapter
        /\ Words(r.q_text) = Words(hist[1].entries[n].question)

HeldElsewhere(n) ==
    \E r \in hist[1].before.questions :
        /\ r.chapter # hist[1].chapter
        /\ Words(r.q_text) = Words(hist[1].entries[n].question)

EarlierInBatch(n) ==
    \E m \in Survivors(hist[1].entries) :
        m < n /\ Words(hist[1].entries[m].question) = Words(hist[1].entries[n].question)

\* texts that differ only in white space get the same key
SameKey ==
    /\ \A r1, r2 \in store.questions :
          Words(r1.q_text) = Words(r2.q_text) => r1.q_text_norm = r2.q_text_norm
    /\ \A r \in store.questions : \A n \in Survivors(hist[1].entries) :
          Words(r.q_text) = Words(hist[1].entries[n].question)
              => r.q_text_norm = normalize_text(hist[1].entries[n].question)

\* within a chapter such texts share one row, and an entry that meets its
\* row is counted in duplicates_skipped
OneRowPerChapter ==
    /\ \A r1, r2 \in store.questions :
          (r1.chapter = r2.chapter /\ Words(r1.q_text) = Words(r2.q_text)) => r1 = r2
    /\ hist[1].counts.skipped_q =
          Cardinality({n \in Survivors(hist[1].entries) : HeldBefore(n) \/ EarlierInBatch(n)})

\* the text of entry n has a row of its own in two chapters
TwoRows(n) ==
    \E r1, r2 \in store.questions :
        /\ r1.chapter = hist[1].chapter /\ r2.chapter # hist[1].chapter
        /\ r1.id # r2.id
        /\ Words(r1.q_text) = Words(hist[1].entries[n].question)
        /\ Words(r2.q_text) = Words(hist[1].entries[n].question)

\* C7 as stated: texts that differ only in white space get the same key; in
\* one chapter they share one row and the second is counted in
\* duplicates_skipped; imported into two different chapters they get two rows
\* and inserted_questions counts each of the two imports.
C7_Collision_AsStated ==
    hist # <<>> =>
        /\ SameKey
        /\ OneRowPerChapter
        /\ \A n \in Survivors(hist[1].entries) :
              HeldElsewhere(n) => TwoRows(n) /\ hist[1].counts.inserted_q >= 1

\* C7 amended: texts that differ only in white space get the same key; in
\* one chapter they share one row and the second is counted in
\* duplicates_skipped; imported into two different chapters they get two
\* rows, and inserted_questions counts the import into each chapter that did
\* not hold the key before.
C7_Collision ==
    hist # <<>> =>
        /\ SameKey
        /\ OneRowPerChapter
        /\ \A n \in Survivors(hist[1].entries) :
              HeldElsewhere(n) =>
                  /\ TwoRows(n)
                  /\ ~HeldBefore(n) => hist[1].counts.inserted_q >= 1
        /\ hist[1].counts.inserted_q =
              Cardinality({n \in Survivors(hist[1].entries) :
                              ~HeldBefore(n) /\ ~EarlierInBatch(n)})

C7_Witness ==
    /\ hist # <<>>
    /\ \E n, m \in Survivors(hist[1].entries) :
          /\ HeldElsewhere(n) /\ ~HeldBefore(n) /\ TwoRows(n)
          /\ EarlierInBatch(m)
          /\ strip(hist[1].entries[m].question) # strip(hist[1].entries[n].question)
    /\ hist[1].counts.inserted_q = 1
    /\ hist[1].counts.skipped_q = 1

\* C14: the sample transcript parses to 2 entries, the first with the correct
\* answers "A" and the continuation line; imported into an empty store it
\* returns inserted_questions = 1, inserted_answers = 2,
\* skipped_unanswered = 1 and duplicates_skipped = 0.
C14_SampleTranscript ==
    (/\ hist # <<>>
     /\ hist[1].text = join_lines(SampleTranscript)
     /\ hist[1].before = EmptyDB)
        => /\ Len(hist[1].entries) = 2
           /\ hist[1].entries[1].question = <<"o", "s", "?">>
           /\ hist[1].entries[1].your = << <<"A">> >>
           /\ hist[1].entries[1].correct = << <<"A">>, <<"h", "w">> >>
           /\ hist[1].entries[2].question = <<"[", "_", "_", "1", "_", "_", "]", "p", "g">>
           /\ hist[1].entries[2].correct = << Sentinel >>
           /\ hist[1].counts = [inserted_q |-> 1, inserted_a |-> 2,
                                skipped_unanswered |-> 1, skipped_q |-> 0]
           /\ Cardinality(store.questions) = 1
           /\ {<<r.position, r.answer_text>> : r \in store.answers}
                 = {<<1, <<"A">> >>, <<2, <<"h", "w">> >>}

C14_Witness ==
    /\ hist # <<>>
    /\ hist[1].text = join_lines(SampleTranscript)
    /\ hist[1].before = EmptyDB
    /\ hist[1].who = "web"
    /\ Cardinality(store.answers) = 2
    /\ \E r \in store.questions : r.q_type = MultipleChoice

\* the number of correct answers of entry n that survive the cleaning
SurvivingAnswers(es, n) ==
    Len(SelectSeq([m \in 1..Len(es[n].correct) |-> strip(es[n].correct[m])],
                  LAMBDA a : a # <<>>))

\* the surviving correct answers of the first n entries, those of the
\* entries the filter drops left out
RECURSIVE SurvivingTotal(_, _)
SurvivingTotal(es, n) ==
    IF n = 0 THEN 0
    ELSE SurvivingTotal(es, n - 1)
            + (IF n \in Survivors(es) THEN SurvivingAnswers(es, n) ELSE 0)

\* C20: the counters of a call that returns add up: every entry is counted
\* once, as inserted, as duplicate or as unanswered (the unanswered ones
\* being those the filter drops), and inserted_answers is at most the number
\* of surviving correct answers of the other entries.
C20_CounterConservation ==
    hist # <<>> =>
        LET es == hist[1].entries
            c  == hist[1].counts
        IN  /\ c.inserted_q + c.skipped_q + c.skipped_unanswered = Len(es)
            /\ c.skipped_unanswered = Len(es) - Cardinality(Survivors(es))
            /\ c.inserted_q + c.skipped_q = Cardinality(Survivors(es))
            /\ c.inserted_a <= SurvivingTotal(es, Len(es))

C20_Witness ==
    /\ hist # <<>>
    /\ Len(hist[1].entries) = 3
    /\ hist[1].counts.inserted_q = 0
    /\ hist[1].counts.skipped_q = 2
    /\ hist[1].counts.skipped_unanswered = 1
    /\ hist[1].counts.inserted_a = 2
    /\ SurvivingTotal(hist[1].entries, 3) = 3

====
